---- MODULE Spec2Model ----
(***************************************************************************)
(* The real-time message channel (composables/useSocket.ts) and the chat   *)
(* view that owns it (views/ChatView.vue), as a state machine.             *)
(*                                                                         *)
(* JavaScript runs every handler to completion, so each action is one      *)
(* synchronous stretch of code: a whole socket handler, a whole channel    *)
(* operation, or the part of an async function between two awaits.  An     *)
(* await on fetch() leaves a task in `tasks`; the environment completes it *)
(* later with any outcome the server may produce.                          *)
(***************************************************************************)
EXTENDS Integers, Sequences, FiniteSets, Bags, TLC

VARIABLES
    \* ---- useSocket.ts
    messages,           \* messages.value: the message list
    isConnected,        \* isConnected.value
    onMessageCallback,  \* the observer slot ("null" when none is registered)
    socket,             \* the socket io() returned: "open" until socket.disconnect()
    \* ---- ChatView.vue
    mounted,            \* onMounted has run
    currentUser,        \* currentUser.value
    currentUserId,      \* currentUserId.value
    recipient,          \* recipient.value
    recipientId,        \* recipientId.value
    activeConversationId,
    newMessage,         \* the input field (v-model)
    conversations,      \* conversations.value
    isLoadingConversations,
    tasks,              \* fetch() calls awaiting their response (a bag)
    \* ---- the server
    stored,             \* the messages of this user it has stored
    \* ---- observation of the run (not program state)
    lastOp,             \* the operation that ran last
    emitted,            \* the outbound socket events it emitted, in order
    invoked,            \* the observer invocations it made, in order
    transport,          \* the last two transport events (connect / disconnect)
    delivered,          \* ids of the receiveMessage events, in first-delivery order
    registered,         \* the observers registered, in the order of their last
                        \* registration
    unmounted,          \* the component that owns the channel has unmounted
    rooms,              \* the rooms joined and not left since (chat view only)
    \* ---- the sidebar (ChatSidebar component)
    searchQuery,        \* searchQuery.value, as a sequence of characters
    searchResults,      \* searchResults.value, as a set of users
    isSearching,        \* isSearching.value
    showSearchResults,  \* showSearchResults.value
    searches            \* the queries of its fetch() calls awaiting a response

channelVars == <<messages, isConnected, onMessageCallback>>
viewVars == <<mounted, currentUser, currentUserId, recipient, recipientId,
              activeConversationId, newMessage, conversations,
              isLoadingConversations, tasks, stored>>
obsVars == <<lastOp, emitted, invoked, transport, delivered, registered>>
lifeVars == <<socket, unmounted>>
sidebarVars == <<searchQuery, searchResults, isSearching, showSearchResults, searches>>
vars == <<channelVars, viewVars, obsVars, lifeVars, rooms, sidebarVars>>

-----------------------------------------------------------------------------
(* Bounds of the model *)

\* most fetch() calls awaiting a response at one time
MaxInFlight == 2
\* longest message list
MaxMsgs == 2
\* most user searches of the sidebar awaiting a response at one time
MaxSearches == 2

-----------------------------------------------------------------------------
(* Values *)

\* JavaScript's undefined (a missing field) and the empty string
Undefined == "undefined"
Empty == ""

\* characters of a text; " " stands for every whitespace character
Chars == {" ", "h"}
Whitespace == {" "}

RECURSIVE SeqsUpTo(_, _)
SeqsUpTo(S, n) ==
    IF n = 0 THEN {<<>>}
    ELSE LET shorter == SeqsUpTo(S, n - 1)
         IN  shorter \cup {Append(s, c) : s \in shorter, c \in S}

\* the texts passed to sendMessage, as sequences of characters
Contents == SeqsUpTo(Chars, 2)

\* the texts typed into the chat view's input
Typed == {<<" ">>, <<" ", "h">>}

\* the values Date.now() takes (the wall clock may be set back)
Times == {1, 2}

\* String.prototype.trim: drops leading and trailing whitespace
RECURSIVE TrimStart(_)
TrimStart(s) ==
    IF s = <<>> THEN <<>>
    ELSE IF Head(s) \in Whitespace THEN TrimStart(Tail(s))
    ELSE s

RECURSIVE TrimEnd(_)
TrimEnd(s) ==
    IF s = <<>> THEN <<>>
    ELSE IF s[Len(s)] \in Whitespace THEN TrimEnd(SubSeq(s, 1, Len(s) - 1))
    ELSE s

Trim(s) == TrimEnd(TrimStart(s))

\* the users and the user ids the server knows
Me == "alice"
MyId == "ua"
Others == {"bob", "carol"}
UserIdOf(u) == IF u = "bob" THEN "ub" ELSE IF u = "carol" THEN "uc" ELSE Empty

\* ids the server assigns to messages
ServerIds == {"m1", "m2"}
\* the ids it gives, in this order, to the messages this user posts; a message
\* posted after they are used up is answered without a message
SentIds == <<"m2">>
\* conversation rooms
ConvIds == {"c1", "c2"}

\* receiveMessage payloads: messages to this user, and payloads that lack
\* the id field (payloads are not validated)
Inbound ==
    { [id |-> i, from |-> "bob", to |-> Me, content |-> <<"h">>, timestamp |-> t]
        : i \in ServerIds \cup {Undefined}, t \in Times }

\* observers a client of the channel may register
Callbacks == {"cb1", "cb2"}
\* the observer ChatView registers in onMounted
ViewCallback == "refreshConversations"

-----------------------------------------------------------------------------
(* Helpers *)

Ids(list) == [k \in 1..Len(list) |-> list[k].id]

\* an existence check that lets payloads without an id through
Exists_DefinedOnly(list, id) ==
    id # Undefined /\ \E k \in 1..Len(list) : list[k].id = id

\* Array.prototype.some((msg) => msg.id === id)
Exists(list, id) == \E k \in 1..Len(list) : list[k].id = id

\* an operation that ran, with its argument (a record: a message, a payload,
\* or a name) and, for receiveMessage, whether the id was already listed
Op(name, arg, existed) == [op |-> name, arg |-> arg, existed |-> existed]
Named(value) == [value |-> value]

Range(f) == {f[k] : k \in DOMAIN f}

\* what an operation leaves behind for the observer of the run
Observe(em, inv) == emitted' = em /\ invoked' = inv

Emit(event, payload) == [event |-> event, payload |-> payload]

-----------------------------------------------------------------------------
(* ChatView.vue: fetchConversations, up to its await *)

\* a fetch() awaiting its response: the request made, the text being sent (for
\* the requests of send), what the request carries, and the id the server
\* gives the message it stores for the request (Undefined when it stores none)
Task(kind, content, arg, id) ==
    [kind |-> kind, content |-> content, arg |-> arg, id |-> id, to |-> Empty]
\* a request of send(), marked with the recipient selected when send() was
\* called (the mark is not program state)
Addressed(task, to) == [task EXCEPT !.to = to]

Pending == BagCardinality(tasks)
Await(task) == tasks' = tasks (+) SetToBag({task})
Resume(task) == tasks' = tasks (-) SetToBag({task})

\* a conversation-list fetch is started unless the user id is unknown;
\* `cont` is what the caller does once the fetch has completed
CanFetchConversations == currentUserId = Empty \/ Pending < MaxInFlight
FetchConversations(pending, cont) ==
    IF currentUserId = Empty
    THEN tasks' = pending /\ UNCHANGED isLoadingConversations
    ELSE /\ isLoadingConversations' = TRUE
         /\ tasks' = pending (+) SetToBag({Task("conversations", <<>>, cont, Undefined)})

-----------------------------------------------------------------------------
(* useSocket.ts *)

\* socket.on("connect")
OnConnect ==
    /\ isConnected' = TRUE
    /\ Observe(<<>>, <<>>)
    /\ UNCHANGED <<messages, onMessageCallback, viewVars>>

\* a disconnect handler that forgets the flag
OnDisconnect_KeepFlag ==
    /\ UNCHANGED isConnected
    /\ Observe(<<>>, <<>>)
    /\ UNCHANGED <<messages, onMessageCallback, viewVars>>

\* socket.on("disconnect")
OnDisconnect ==
    /\ isConnected' = FALSE
    /\ Observe(<<>>, <<>>)
    /\ UNCHANGED <<messages, onMessageCallback, viewVars>>

\* a handler that pushes without the existence check
Ingest_NoCheck(list, message) == Append(list, message)

\* a handler that keeps the list in timestamp order
Ingest_ByTimestamp(list, message) ==
    IF Exists(list, message.id) THEN list
    ELSE LET before == SelectSeq(list, LAMBDA m : m.timestamp <= message.timestamp)
             after == SelectSeq(list, LAMBDA m : m.timestamp > message.timestamp)
         IN  before \o <<message>> \o after

\* a handler that puts the new message first
Ingest_Prepend(list, message) ==
    IF ~Exists(list, message.id) THEN <<message>> \o list ELSE list

\* the list after the handler's existence check and push
Ingest(list, message) ==
    IF ~Exists(list, message.id) THEN Append(list, message) ELSE list

\* an observer called ahead of the push
Visible_BeforePush(before, after) == before

\* the list the observer finds when it is called: the push comes first
Visible(before, after) == after

\* the observer invocations of the handler, given the list the observer finds
Notify(slot, message, list) ==
    IF slot # "null"
    THEN <<[cb |-> slot, message |-> message, list |-> list]>>
    ELSE <<>>

\* a handler that takes a received message as proof of a connection
OnReceiveMessage_MarksConnected(message) ==
    LET list == Ingest(messages, message)
        calls == Notify(onMessageCallback, message, Visible(messages, list))
    IN  /\ messages' = list
        /\ isConnected' = TRUE
        /\ Observe(<<>>, calls)
        /\ IF \E k \in 1..Len(calls) : calls[k].cb = ViewCallback
           THEN /\ CanFetchConversations
                /\ FetchConversations(tasks, "none")
           ELSE UNCHANGED <<isLoadingConversations, tasks>>
        /\ UNCHANGED <<onMessageCallback, mounted,
                       currentUser, currentUserId, recipient, recipientId,
                       activeConversationId, newMessage, conversations, stored>>

\* socket.on("receiveMessage"); when the observer is ChatView's, its body
\* (fetchConversations up to the await) runs inside the handler
OnReceiveMessage(message) ==
    LET list == Ingest(messages, message)
        calls == Notify(onMessageCallback, message, Visible(messages, list))
    IN  /\ messages' = list
        /\ Observe(<<>>, calls)
        /\ IF \E k \in 1..Len(calls) : calls[k].cb = ViewCallback
           THEN /\ CanFetchConversations
                /\ FetchConversations(tasks, "none")
           ELSE UNCHANGED <<isLoadingConversations, tasks>>
        /\ UNCHANGED <<isConnected, onMessageCallback, mounted,
                       currentUser, currentUserId, recipient, recipientId,
                       activeConversationId, newMessage, conversations, stored>>

\* a registration that keeps an observer already in the slot
SetOnMessageCallback_KeepFirst(callback) ==
    /\ onMessageCallback' = IF onMessageCallback = "null" THEN callback
                            ELSE onMessageCallback
    /\ Observe(<<>>, <<>>)
    /\ UNCHANGED <<messages, isConnected, viewVars>>

\* setOnMessageCallback(callback)
SetOnMessageCallback(callback) ==
    /\ onMessageCallback' = callback
    /\ Observe(<<>>, <<>>)
    /\ UNCHANGED <<messages, isConnected, viewVars>>

\* joinConversation(conversationId)
JoinConversation(conversationId) ==
    /\ Observe(<<Emit("joinConversation", conversationId)>>, <<>>)
    /\ UNCHANGED <<channelVars, viewVars>>

\* a leaveConversation pasted from joinConversation with its event unchanged
LeaveConversation_EmitsJoin(conversationId) ==
    /\ Observe(<<Emit("joinConversation", conversationId)>>, <<>>)
    /\ UNCHANGED <<channelVars, viewVars>>

\* leaveConversation(conversationId)
LeaveConversation(conversationId) ==
    /\ Observe(<<Emit("leaveConversation", conversationId)>>, <<>>)
    /\ UNCHANGED <<channelVars, viewVars>>

\* a guard that forgets to trim
Sendable_NoTrim(content) == content # <<>>

\* if (!content.trim()) return;
Sendable(content) == Trim(content) # <<>>

\* a payload that carries the trimmed text
SendPayload_Trimmed(from, to, content) ==
    [from |-> from, to |-> to, content |-> Trim(content)]

\* the payload of the outbound sendMessage event
SendPayload(from, to, content) == [from |-> from, to |-> to, content |-> content]

\* sendMessage(from, to, content)
SendMessage(from, to, content) ==
    /\ Observe(IF Sendable(content)
               THEN <<Emit("sendMessage", SendPayload(from, to, content))>>
               ELSE <<>>,
               <<>>)
    /\ UNCHANGED <<channelVars, viewVars>>

\* an unmount hook that leaves the socket as it is
OnUnmounted_KeepOpen ==
    /\ UNCHANGED <<socket, isConnected>>
    /\ Observe(<<>>, <<>>)
    /\ UNCHANGED <<messages, onMessageCallback, viewVars>>

\* onUnmounted(() => socket.disconnect()).  socket.io-client closes the
\* socket and, when it was connected, calls the "disconnect" handler before
\* disconnect() returns; a socket closed this way does not reconnect.
OnUnmounted ==
    /\ socket' = "closed"
    /\ isConnected' = FALSE
    /\ Observe(<<>>, <<>>)
    /\ UNCHANGED <<messages, onMessageCallback, viewVars>>

-----------------------------------------------------------------------------
(* The server, as ChatView.vue sees it through fetch() *)

\* how a fetch() ends: response.ok, a non-OK status, or a thrown network error
Outcomes == {"ok", "fail", "throw"}

\* the conversations the server may list for this user
AllConvs ==
    { [conversationId |-> "c1", username |-> "bob", userId |-> "ub"],
      [conversationId |-> "c2", username |-> "carol", userId |-> "uc"] }

\* the conversation lists the server may return
ConvLists == {{}, {c \in AllConvs : c.username = "bob"}, AllConvs}

\* the createdAt the server has stored for a message
CreatedAt(id) == IF id = "m1" THEN 2 ELSE IF id = "m0" THEN 1 ELSE 3

\* the message of another user that the server sends as a receiveMessage event
Served ==
    { [id |-> "m1", from |-> "bob", to |-> Me, content |-> <<"h">>,
       timestamp |-> CreatedAt("m1")] }

UsernameOf(userId) ==
    IF userId = "ub" THEN "bob" ELSE IF userId = "uc" THEN "carol" ELSE Empty
PartnerOf(conversationId) == IF conversationId = "c1" THEN "bob" ELSE "carol"
ConvWith(userId) == IF userId = "ub" THEN "c1" ELSE "c2"

\* the id the server may give the next message posted: the next unused one,
\* or none (it answers without a message)
IdChoices ==
    {Undefined} \cup (IF Cardinality(stored) < Len(SentIds)
                      THEN {SentIds[Cardinality(stored) + 1]} ELSE {})

\* a POST the server can store names a conversation or a receiver
Storable(request) ==
    \/ request.kind = "post"
    \/ request.kind = "create" /\ request.arg # Empty

\* the stored message, which the server also sends as a receiveMessage event
Echo(request) ==
    [id |-> request.id, from |-> Me,
     to |-> IF request.kind = "post" THEN PartnerOf(request.arg)
            ELSE UsernameOf(request.arg),
     content |-> request.content, timestamp |-> CreatedAt(request.id)]

\* the server receives a request of send()
Posted(request) ==
    /\ request.id \in IdChoices
    /\ ~Storable(request) => request.id = Undefined
    /\ stored' = IF request.id # Undefined THEN stored \cup {Echo(request)} ELSE stored

\* the conversation POST /api/chat/message-new answers with
ConvChoices(request) ==
    IF request.arg # Empty THEN {ConvWith(request.arg)} ELSE ConvIds

\* names a prompt may return
PromptNames == Others

\* a stored message as the history endpoint returns it; senderId and
\* receiverId are populated objects or bare ids
Stored(id, sender, receiver) ==
    [_id |-> id, senderId |-> sender, receiverId |-> receiver,
     text |-> <<"h">>, createdAt |-> CreatedAt(id)]
Populated(username) == [populated |-> TRUE, username |-> username, id |-> Empty]
BareId(id) == [populated |-> FALSE, username |-> Empty, id |-> id]

\* what GET /api/chat/messages/<conversationId> may return
Histories(conversationId) ==
    IF conversationId = "c1"
    THEN {<<>>, <<Stored("m1", Populated("bob"), BareId(MyId))>>}
    ELSE {<<>>, <<Stored("m0", BareId(MyId), BareId("uc"))>>}

\* what GET /api/users/search?q=<q> may return
SearchResults(q) ==
    {{}} \cup (IF q \in Others THEN {{[_id |-> UserIdOf(q), username |-> q]}} ELSE {})

-----------------------------------------------------------------------------
(* ChatView.vue *)

\* the sidebar's conversation entries: the API conversations when there are
\* any, else the partners derived from the message list
SidebarNames ==
    IF conversations # {}
    THEN {c.username : c \in conversations}
    ELSE {(IF messages[k].from = currentUser THEN messages[k].to
           ELSE messages[k].from) : k \in 1..Len(messages)}

\* conversations.value.find(c => c.chatInfo.username === username)
ConvByUsername(username) == {c \in conversations : c.username = username}
\* conversations.value.find(c => c.chatInfo.userId === userId)
ConvByUserId(userId) == {c \in conversations : c.userId = userId}

\* a selection that stays in the previous room
LeavePrevious_Skipped == <<>>

\* if (activeConversationId.value) leaveConversation(activeConversationId.value)
LeavePrevious ==
    IF activeConversationId # Empty
    THEN <<Emit("leaveConversation", activeConversationId)>>
    ELSE <<>>

\* onMounted, up to its first await; localStorage holds the user name, and
\* holds a valid token or none
OnMounted(hasToken) ==
    /\ ~mounted
    /\ mounted' = TRUE
    /\ currentUser' = Me
    /\ IF hasToken
       THEN /\ currentUserId' = MyId
            /\ isLoadingConversations' = TRUE
            /\ Await(Task("conversations", <<>>, "mount", Undefined))
            /\ UNCHANGED onMessageCallback
       ELSE /\ onMessageCallback' = ViewCallback
            /\ UNCHANGED <<currentUserId, isLoadingConversations, tasks>>
    /\ Observe(<<>>, <<>>)
    /\ UNCHANGED <<messages, isConnected, recipient, recipientId,
                   activeConversationId, newMessage, conversations, stored>>

\* fetchConversations after its await; onMounted then registers the observer
ConversationsDone(task, outcome, list) ==
    /\ task \in BagToSet(tasks) /\ task.kind = "conversations"
    /\ Resume(task)
    /\ conversations' = IF outcome = "ok" THEN list ELSE conversations
    /\ isLoadingConversations' = FALSE
    /\ onMessageCallback' = IF task.arg = "mount" THEN ViewCallback
                            ELSE onMessageCallback
    /\ Observe(<<>>, <<>>)
    /\ UNCHANGED <<messages, isConnected, mounted, currentUser, currentUserId,
                   recipient, recipientId, activeConversationId, newMessage,
                   stored>>

\* the mapping of a stored message to the client's Message
MapUser(ref) ==
    IF ref.populated THEN ref.username
    ELSE IF ref.id = currentUserId THEN currentUser ELSE recipient
MapMessage(msg) ==
    [id |-> msg._id, from |-> MapUser(msg.senderId), to |-> MapUser(msg.receiverId),
     content |-> msg.text, timestamp |-> msg.createdAt]

\* the message list after loadMessagesFromAPI has its response
Loaded(outcome, result) ==
    IF outcome = "ok"
    THEN [k \in 1..Len(result) |-> MapMessage(result[k])]
    ELSE <<>>

\* loadMessagesFromAPI after its await
HistoryDone(task, outcome, result) ==
    /\ task \in BagToSet(tasks) /\ task.kind = "history"
    /\ outcome = "ok" => result \in Histories(task.arg)
    /\ Resume(task)
    /\ messages' = Loaded(outcome, result)
    /\ Observe(<<>>, <<>>)
    /\ UNCHANGED <<isConnected, onMessageCallback, mounted, currentUser,
                   currentUserId, recipient, recipientId, activeConversationId,
                   newMessage, conversations, isLoadingConversations, stored>>

\* the message list after selectConversation's synchronous part
SelectedList(found) == IF found THEN messages ELSE <<>>

\* selectConversation(username), up to its await
SelectConversation(username) ==
    LET conv == ConvByUsername(username) IN
    /\ mounted
    /\ username \in SidebarNames
    /\ recipient' = username
    /\ messages' = SelectedList(conv # {})
    /\ IF conv # {}
       THEN LET c == CHOOSE c \in conv : TRUE IN
            /\ Pending < MaxInFlight
            /\ recipientId' = c.userId
            /\ activeConversationId' = c.conversationId
            /\ Await(Task("history", <<>>, c.conversationId, Undefined))
            /\ Observe(LeavePrevious \o <<Emit("joinConversation", c.conversationId)>>,
                       <<>>)
       ELSE /\ recipientId' = Empty
            /\ activeConversationId' = Empty
            /\ UNCHANGED tasks
            /\ Observe(LeavePrevious, <<>>)
    /\ UNCHANGED <<isConnected, onMessageCallback, mounted, currentUser,
                   currentUserId, newMessage, conversations,
                   isLoadingConversations, stored>>

\* startNewChat(user), up to its await
StartNewChat(user) ==
    LET conv == ConvByUserId(user._id) IN
    /\ mounted
    /\ recipient' = user.username
    /\ recipientId' = user._id
    /\ messages' = <<>>
    /\ IF conv # {}
       THEN LET c == CHOOSE c \in conv : TRUE IN
            /\ Pending < MaxInFlight
            /\ activeConversationId' = c.conversationId
            /\ Await(Task("history", <<>>, c.conversationId, Undefined))
            /\ Observe(LeavePrevious \o <<Emit("joinConversation", c.conversationId)>>,
                       <<>>)
       ELSE /\ activeConversationId' = Empty
            /\ UNCHANGED tasks
            /\ Observe(LeavePrevious, <<>>)
    /\ UNCHANGED <<isConnected, onMessageCallback, mounted, currentUser,
                   currentUserId, newMessage, conversations,
                   isLoadingConversations, stored>>

\* promptNewChat, with a non-blank name entered (already trimmed); its
\* buttons are rendered while no recipient is selected
PromptNewChat(name) ==
    /\ mounted
    /\ recipient = Empty
    /\ recipient' = name
    /\ Observe(<<>>, <<>>)
    /\ UNCHANGED <<channelVars, mounted, currentUser, currentUserId, recipientId,
                   activeConversationId, newMessage, conversations,
                   isLoadingConversations, tasks, stored>>

\* typing into the input (v-model="newMessage"), rendered once a recipient
\* is selected
TypeMessage(content) ==
    /\ mounted
    /\ recipient # Empty
    /\ newMessage' = content
    /\ Observe(<<>>, <<>>)
    /\ UNCHANGED <<channelVars, mounted, currentUser, currentUserId, recipient,
                   recipientId, activeConversationId, conversations,
                   isLoadingConversations, tasks, stored>>

\* the request send() makes first, from the state it reads before any await
FirstRequest(content, id) ==
    IF activeConversationId # Empty
    THEN Task("post", content, activeConversationId, id)
    ELSE IF recipientId = Empty /\ recipient # Empty
    THEN Task("search", content, recipient, id)
    ELSE Task("create", content, recipientId, id)

\* send(), up to its first await; Enter in the input calls it, and the input
\* is rendered once a recipient is selected
Send(id) ==
    /\ mounted
    /\ recipient # Empty
    /\ IF Trim(newMessage) = <<>>
       THEN id = Undefined /\ UNCHANGED <<newMessage, tasks, stored>>
       ELSE /\ Pending < MaxInFlight
            /\ newMessage' = <<>>
            /\ Await(Addressed(FirstRequest(newMessage, id), recipient))
            /\ Posted(FirstRequest(newMessage, id))
    /\ Observe(<<>>, <<>>)
    /\ UNCHANGED <<channelVars, mounted, currentUser, currentUserId, recipient,
                   recipientId, activeConversationId, conversations,
                   isLoadingConversations>>

\* send() after the user search has its response
SearchDone(task, outcome, users, id) ==
    LET target == {u \in users : u.username = recipient}
        rest == tasks (-) SetToBag({task})
    IN
    /\ task \in BagToSet(tasks) /\ task.kind = "search"
    /\ outcome = "ok" => users \in SearchResults(task.arg)
    /\ IF outcome = "ok" /\ target # {}
       THEN LET u == CHOOSE u \in target : TRUE IN
            /\ recipientId' = u._id
            /\ tasks' = rest (+) SetToBag({Addressed(Task("create", task.content, u._id, id),
                                                     task.to)})
            /\ Posted(Task("create", task.content, u._id, id))
            /\ UNCHANGED newMessage
       ELSE IF outcome = "fail"
       THEN /\ tasks' = rest (+) SetToBag({Addressed(Task("create", task.content,
                                                          recipientId, id),
                                                     task.to)})
            /\ Posted(Task("create", task.content, recipientId, id))
            /\ UNCHANGED <<recipientId, newMessage>>
       ELSE /\ id = Undefined
            /\ newMessage' = task.content
            /\ tasks' = rest
            /\ UNCHANGED <<recipientId, stored>>
    /\ Observe(<<>>, <<>>)
    /\ UNCHANGED <<channelVars, mounted, currentUser, currentUserId, recipient,
                   activeConversationId, conversations, isLoadingConversations>>

\* the message send() builds from the response; Date.now() fills in for a
\* response without a message (both calls of the object literal are taken to
\* fall in the same millisecond, now)
NewMsg(content, msgId, now) ==
    [id |-> IF msgId # Undefined THEN msgId ELSE ToString(now),
     from |-> currentUser, to |-> recipient, content |-> content,
     timestamp |-> IF msgId # Undefined THEN CreatedAt(msgId) ELSE now]

\* the list after the new-conversation path has its message
PushCreated(list, msg) == Append(list, msg)

\* an existing-conversation path that pushes without the existence check
PushPosted_NoCheck(list, msg) == Append(list, msg)

\* the list after the existing-conversation path has its message
PushPosted(list, msg) == IF ~Exists(list, msg.id) THEN Append(list, msg) ELSE list

\* send() after POST /api/chat/message-new has its response
CreateDone(task, outcome, conversationId, now) ==
    /\ task \in BagToSet(tasks) /\ task.kind = "create"
    /\ outcome = "ok" => conversationId \in ConvChoices(task)
    /\ IF outcome = "ok"
       THEN /\ Len(messages) < MaxMsgs
            /\ activeConversationId' = conversationId
            /\ messages' = PushCreated(messages, NewMsg(task.content, task.id, now))
            /\ FetchConversations(tasks (-) SetToBag({task}), "none")
            /\ Observe(<<Emit("joinConversation", conversationId)>>, <<>>)
            /\ UNCHANGED newMessage
       ELSE /\ newMessage' = task.content
            /\ Resume(task)
            /\ Observe(<<>>, <<>>)
            /\ UNCHANGED <<activeConversationId, messages,
                           isLoadingConversations>>
    /\ UNCHANGED <<isConnected, onMessageCallback, mounted, currentUser,
                   currentUserId, recipient, recipientId, conversations, stored>>

\* send() after POST /api/chat/message has its response
PostDone(task, outcome, now) ==
    /\ task \in BagToSet(tasks) /\ task.kind = "post"
    /\ IF outcome = "ok"
       THEN LET msg == NewMsg(task.content, task.id, now) IN
            /\ Len(PushPosted(messages, msg)) <= MaxMsgs
            /\ messages' = PushPosted(messages, msg)
            /\ FetchConversations(tasks (-) SetToBag({task}), "none")
            /\ UNCHANGED newMessage
       ELSE /\ newMessage' = task.content
            /\ Resume(task)
            /\ UNCHANGED <<messages, isLoadingConversations>>
    /\ Observe(<<>>, <<>>)
    /\ UNCHANGED <<isConnected, onMessageCallback, mounted, currentUser,
                   currentUserId, recipient, recipientId, activeConversationId,
                   conversations, stored>>

-----------------------------------------------------------------------------
(* Specifications *)

Init ==
    /\ messages = <<>>
    /\ isConnected = FALSE
    /\ onMessageCallback = "null"
    /\ socket = "open"
    /\ mounted = FALSE
    /\ currentUser = Empty
    /\ currentUserId = Empty
    /\ recipient = Empty
    /\ recipientId = Empty
    /\ activeConversationId = Empty
    /\ newMessage = <<>>
    /\ conversations = {}
    /\ isLoadingConversations = FALSE
    /\ tasks = EmptyBag
    /\ stored = {}
    /\ lastOp = Op("init", Named(Empty), FALSE)
    /\ emitted = <<>>
    /\ invoked = <<>>
    /\ transport = <<>>
    /\ delivered = <<>>
    /\ registered = <<>>
    /\ unmounted = FALSE
    /\ rooms = {}
    /\ searchQuery = <<>>
    /\ searchResults = {}
    /\ isSearching = FALSE
    /\ showSearchResults = FALSE
    /\ searches = EmptyBag

\* the record of the run kept beside the channel: the operation that ran
\* last, the last two transport events, the ids delivered in the order of
\* their first delivery, and the observers in the order of their registration
Ran(op) == lastOp' = op
LastTwo(seq) == IF Len(seq) > 2 THEN Tail(seq) ELSE seq
Without(seq, x) == SelectSeq(seq, LAMBDA y : y # x)

\* the transport's events reach the handlers of an open socket only
Connected ==
    /\ socket = "open"
    /\ OnConnect
    /\ Ran(Op("connect", Named(Empty), FALSE))
    /\ transport' = LastTwo(Append(transport, "connect"))
    /\ UNCHANGED <<delivered, registered, lifeVars, rooms, sidebarVars>>

Disconnected ==
    /\ socket = "open"
    /\ OnDisconnect
    /\ Ran(Op("disconnect", Named(Empty), FALSE))
    /\ transport' = LastTwo(Append(transport, "disconnect"))
    /\ UNCHANGED <<delivered, registered, lifeVars, rooms, sidebarVars>>

Delivered(message) ==
    /\ socket = "open"
    /\ OnReceiveMessage(message)
    /\ Ran(Op("receiveMessage", message, Exists(messages, message.id)))
    /\ delivered' = IF message.id \in Range(delivered) THEN delivered
                    ELSE Append(delivered, message.id)
    /\ UNCHANGED <<transport, registered, lifeVars, rooms, sidebarVars>>

Registered(callback) ==
    /\ SetOnMessageCallback(callback)
    /\ Ran(Op("setOnMessageCallback", Named(callback), FALSE))
    /\ registered' = Append(Without(registered, callback), callback)
    /\ UNCHANGED <<transport, delivered, lifeVars, rooms, sidebarVars>>

Joined(conversationId) ==
    /\ JoinConversation(conversationId)
    /\ Ran(Op("joinConversation", Named(conversationId), FALSE))
    /\ UNCHANGED <<transport, delivered, registered, lifeVars, rooms, sidebarVars>>

Left(conversationId) ==
    /\ LeaveConversation(conversationId)
    /\ Ran(Op("leaveConversation", Named(conversationId), FALSE))
    /\ UNCHANGED <<transport, delivered, registered, lifeVars, rooms, sidebarVars>>

Sent(from, to, content) ==
    /\ SendMessage(from, to, content)
    /\ Ran(Op("sendMessage", [from |-> from, to |-> to, content |-> content], FALSE))
    /\ UNCHANGED <<transport, delivered, registered, lifeVars, rooms, sidebarVars>>

\* the owning component unmounts, once
Unmounted ==
    /\ ~unmounted
    /\ unmounted' = TRUE
    /\ OnUnmounted
    /\ Ran(Op("unmount", Named(IF isConnected THEN "connected" ELSE "disconnected"),
              FALSE))
    /\ transport' = IF isConnected' # isConnected
                    THEN LastTwo(Append(transport, "disconnect")) ELSE transport
    /\ UNCHANGED <<delivered, registered, rooms, sidebarVars>>

\* the channel alone, driven by the transport, by any client of its API and
\* by the unmount of the component that owns it
NextChannel ==
    \/ Connected
    \/ Disconnected
    \/ \E message \in Inbound : Delivered(message)
    \/ \E callback \in Callbacks : Registered(callback)
    \/ \E conversationId \in ConvIds : Joined(conversationId)
    \/ \E conversationId \in ConvIds : Left(conversationId)
    \/ \E from \in {Me}, to \in Others, content \in Contents : Sent(from, to, content)
    \/ Unmounted

SpecChannel == Init /\ [][NextChannel]_vars

\* the chat view with its channel, driven by the user, the server's responses
\* and the messages the transport delivers.  The transport's connect and
\* disconnect events change isConnected alone, which no operation reads; they
\* are left to SpecChannel, and so is the unmount.
\* the rooms the socket is in after it has emitted the events, in order
RECURSIVE RoomsAfter(_, _)
RoomsAfter(joined, events) ==
    IF events = <<>> THEN joined
    ELSE LET e == Head(events) IN
         RoomsAfter(IF e.event = "joinConversation" THEN joined \cup {e.payload}
                    ELSE IF e.event = "leaveConversation" THEN joined \ {e.payload}
                    ELSE joined,
                    Tail(events))

\* of the record kept beside the channel, the chat view keeps the rooms only
Watched ==
    /\ UNCHANGED <<lastOp, transport, delivered, registered, lifeVars>>
    /\ rooms' = RoomsAfter(rooms, emitted')

\* the sidebar's search is left to SpecSidebar
Quiet == Watched /\ UNCHANGED sidebarVars

Next ==
    \/ \E message \in Served \cup stored :
          /\ Len(Ingest(messages, message)) <= MaxMsgs
          /\ OnReceiveMessage(message) /\ Quiet
    \/ \E hasToken \in BOOLEAN : OnMounted(hasToken) /\ Quiet
    \/ \E task \in BagToSet(tasks), list \in ConvLists :
          ConversationsDone(task, "ok", list) /\ Quiet
    \/ \E task \in BagToSet(tasks), outcome \in Outcomes \ {"ok"} :
          ConversationsDone(task, outcome, {}) /\ Quiet
    \/ \E task \in BagToSet(tasks), result \in UNION {Histories(c) : c \in ConvIds} :
          HistoryDone(task, "ok", result) /\ Quiet
    \/ \E task \in BagToSet(tasks), outcome \in Outcomes \ {"ok"} :
          HistoryDone(task, outcome, <<>>) /\ Quiet
    \/ \E username \in Others \cup {Me} : SelectConversation(username) /\ Quiet
    \/ \E username \in Others :
          StartNewChat([_id |-> UserIdOf(username), username |-> username]) /\ Quiet
    \/ \E name \in PromptNames : PromptNewChat(name) /\ Quiet
    \/ \E content \in Typed : TypeMessage(content) /\ Quiet
    \/ \E id \in Range(SentIds) \cup {Undefined} : Send(id) /\ Quiet
    \/ \E task \in BagToSet(tasks), users \in UNION {SearchResults(q) : q \in PromptNames},
          id \in Range(SentIds) \cup {Undefined} :
          SearchDone(task, "ok", users, id) /\ Quiet
    \/ \E task \in BagToSet(tasks), outcome \in Outcomes \ {"ok"},
          id \in Range(SentIds) \cup {Undefined} :
          SearchDone(task, outcome, {}, id) /\ Quiet
    \/ \E task \in BagToSet(tasks), conversationId \in ConvIds, now \in Times :
          /\ task.id # Undefined => now = 1
          /\ CreateDone(task, "ok", conversationId, now) /\ Quiet
    \/ \E task \in BagToSet(tasks), outcome \in Outcomes \ {"ok"} :
          CreateDone(task, outcome, Empty, 1) /\ Quiet
    \/ \E task \in BagToSet(tasks), now \in Times :
          /\ task.id # Undefined => now = 1
          /\ PostDone(task, "ok", now) /\ Quiet
    \/ \E task \in BagToSet(tasks), outcome \in Outcomes \ {"ok"} :
          PostDone(task, outcome, 1) /\ Quiet

Spec == Init /\ [][Next]_vars

-----------------------------------------------------------------------------
(* The sidebar's user search (ChatSidebar component) *)

\* the characters of a search query, and the queries typed
QueryChars == {" ", "a", "b"}
Queries == SeqsUpTo(QueryChars, 2)

\* the users the search endpoint knows, and those it finds for a query: the
\* ones whose initial occurs in it
Directory ==
    { [_id |-> MyId, username |-> Me], [_id |-> "ub", username |-> "bob"] }
Initial(user) == IF user.username = Me THEN "a" ELSE "b"
Found(q) == {user \in Directory : Initial(user) \in Range(q)}

\* userList.filter((u) => u.username !== props.currentUser)
Shown(users) == {user \in users : user.username # currentUser}

\* what the sidebar leaves alone: the channel and the view it is rendered in
SidebarOnly == UNCHANGED <<channelVars, viewVars>> /\ Watched

\* typing into the search input: v-model sets searchQuery, then
\* handleSearchInput runs, and with it searchUsers up to its await;
\* localStorage holds a token or none
HandleSearchInput(q, hasToken) ==
    /\ mounted
    /\ searchQuery' = q
    /\ IF Trim(q) # <<>>
       THEN /\ showSearchResults' = TRUE
            /\ IF hasToken
               THEN /\ BagCardinality(searches) < MaxSearches
                    /\ isSearching' = TRUE
                    /\ searches' = searches (+) SetToBag({q})
                    /\ UNCHANGED searchResults
               ELSE /\ searchResults' = {}
                    /\ isSearching' = FALSE
                    /\ UNCHANGED searches
       ELSE /\ searchResults' = {}
            /\ showSearchResults' = FALSE
            /\ UNCHANGED <<isSearching, searches>>
    /\ Observe(<<>>, <<>>)
    /\ SidebarOnly

\* searchUsers after its await
SearchUsersDone(q, outcome) ==
    /\ q \in BagToSet(searches)
    /\ searches' = searches (-) SetToBag({q})
    /\ searchResults' = IF outcome = "ok" THEN Shown(Found(q)) ELSE {}
    /\ isSearching' = FALSE
    /\ UNCHANGED <<searchQuery, showSearchResults>>
    /\ Observe(<<>>, <<>>)
    /\ SidebarOnly

\* clearSearch; its button is rendered while the query is not empty
ClearSearch ==
    /\ mounted
    /\ searchQuery # <<>>
    /\ searchQuery' = <<>>
    /\ searchResults' = {}
    /\ showSearchResults' = FALSE
    /\ UNCHANGED <<isSearching, searches>>
    /\ Observe(<<>>, <<>>)
    /\ SidebarOnly

\* the sidebar's selectConversation(username), on a click on a conversation
SidebarSelectConversation(username) ==
    /\ mounted
    /\ username \in SidebarNames
    /\ searchQuery' = <<>>
    /\ showSearchResults' = FALSE
    /\ UNCHANGED <<searchResults, isSearching, searches>>
    /\ Observe(<<Emit("selectConversation", Named(username))>>, <<>>)
    /\ SidebarOnly

\* startChatWithUser(user), on a click on a search result; the results are
\* rendered while they are shown and no search is running
StartChatWithUser(user) ==
    /\ mounted
    /\ showSearchResults /\ ~isSearching
    /\ user \in searchResults
    /\ searchQuery' = <<>>
    /\ showSearchResults' = FALSE
    /\ UNCHANGED <<searchResults, isSearching, searches>>
    /\ Observe(<<Emit("startNewChat", user)>>, <<>>)
    /\ SidebarOnly

\* the sidebar in the mounted chat view, driven by the user and by the
\* responses to its searches; what its events do in the chat view is left to
\* Spec
NextSidebar ==
    \/ \E hasToken \in BOOLEAN : OnMounted(hasToken) /\ Quiet
    \/ \E task \in BagToSet(tasks), list \in ConvLists :
          ConversationsDone(task, "ok", list) /\ Quiet
    \/ \E task \in BagToSet(tasks), outcome \in Outcomes \ {"ok"} :
          ConversationsDone(task, outcome, {}) /\ Quiet
    \/ \E q \in Queries, hasToken \in BOOLEAN : HandleSearchInput(q, hasToken)
    \/ \E q \in BagToSet(searches) : SearchUsersDone(q, "ok")
    \/ \E q \in BagToSet(searches), outcome \in Outcomes \ {"ok"} :
          SearchUsersDone(q, outcome)
    \/ ClearSearch
    \/ \E username \in Others : SidebarSelectConversation(username)
    \/ \E user \in Directory : StartChatWithUser(user)

SpecSidebar == Init /\ [][NextSidebar]_vars

-----------------------------------------------------------------------------
(* Properties of the channel, checked under SpecChannel *)

Last(seq) == seq[Len(seq)]
Count(list, id) == Cardinality({k \in 1..Len(list) : list[k].id = id})
IsPrefix(short, long) ==
    Len(short) <= Len(long) /\ SubSeq(long, 1, Len(short)) = short
Blank(content) == \A k \in 1..Len(content) : content[k] \in Whitespace

\* C1: after any sequence of receiveMessage events on a fresh channel, the
\* list holds exactly one entry for every id that was delivered, however
\* often it was delivered, and no entry for any other id.
C1_OneEntryPerDeliveredId ==
    /\ \A id \in Range(delivered) : Count(messages, id) = 1
    /\ \A k \in 1..Len(messages) : messages[k].id \in Range(delivered)

\* an id is delivered again while another id is in the list as well
C1_Witness ==
    /\ lastOp.op = "receiveMessage" /\ lastOp.existed
    /\ Len(delivered) = 2
    /\ Count(messages, lastOp.arg.id) = 1

\* C2 (as claimed): a receiveMessage event whose id is already in the list
\* is discarded: it changes neither the list nor the flag nor the observer
\* slot, and it does not invoke the observer.
C2_DuplicateNotNotified ==
    [][(lastOp'.op = "receiveMessage" /\ lastOp'.existed)
          => (invoked' = <<>> /\ UNCHANGED <<messages, isConnected, onMessageCallback>>)
      ]_vars

\* C3: a receiveMessage event with an unseen id, with an observer registered,
\* invokes the observer exactly once, with that message, and the observer
\* finds the message as the last entry of the list.
C3_NotifiedOnceAfterAppend ==
    (lastOp.op = "receiveMessage" /\ ~lastOp.existed /\ onMessageCallback # "null")
        => /\ Len(invoked) = 1
           /\ invoked[1].message = lastOp.arg
           /\ invoked[1].list # <<>>
           /\ Last(invoked[1].list) = lastOp.arg
           /\ invoked[1].list = messages

\* an unseen id arrives after another message, with an observer registered
C3_Witness ==
    /\ lastOp.op = "receiveMessage" /\ ~lastOp.existed
    /\ onMessageCallback # "null"
    /\ Len(messages) = 2
    /\ Len(invoked) = 1

\* C6: the connection flag is false until the first transport event, and
\* from then on true exactly when the last transport event was a connect,
\* whatever the sequence of connects and disconnects.
C6_FlagFollowsTransport ==
    isConnected <=> (transport # <<>> /\ Last(transport) = "connect")

\* a connect followed by a disconnect, with other operations since
C6_Witness ==
    /\ transport = <<"connect", "disconnect">>
    /\ ~isConnected
    /\ lastOp.op = "receiveMessage"

\* C7: sendMessage with empty or whitespace-only content emits no outbound
\* event and leaves the list, the flag and the observer slot unchanged.
C7_BlankNotSent ==
    [][(lastOp'.op = "sendMessage" /\ Blank(lastOp'.arg.content))
          => (emitted' = <<>> /\ UNCHANGED <<messages, isConnected, onMessageCallback>>)
      ]_vars

\* sendMessage has run with whitespace-only content on a channel in use
C7_Witness ==
    /\ lastOp.op = "sendMessage"
    /\ lastOp.arg.content = <<" ", " ">>
    /\ emitted = <<>>
    /\ messages # <<>> /\ isConnected /\ onMessageCallback # "null"

\* C8: sendMessage with content that is not blank emits exactly one
\* sendMessage event carrying from, to and the content as given, connected
\* or not, and appends nothing to the list.
C8_SentAsGiven ==
    [][(lastOp'.op = "sendMessage" /\ ~Blank(lastOp'.arg.content))
          => (emitted' = <<Emit("sendMessage", lastOp'.arg)>> /\ messages' = messages)
      ]_vars

\* text with a leading space has been sent while disconnected
C8_Witness ==
    /\ lastOp.op = "sendMessage"
    /\ lastOp.arg.content = <<" ", "h">>
    /\ ~isConnected
    /\ emitted = <<Emit("sendMessage", lastOp.arg)>>

\* C9: an inbound event invokes at most one observer, and only the one
\* registered last.
C9_SingleSlot ==
    /\ Len(invoked) <= 1
    /\ \A k \in 1..Len(invoked) :
          registered # <<>> /\ invoked[k].cb = Last(registered)

\* cb1 was registered, then cb2, and a new message has invoked cb2
C9_Witness ==
    /\ registered = <<"cb1", "cb2">>
    /\ lastOp.op = "receiveMessage" /\ ~lastOp.existed
    /\ Len(invoked) = 1 /\ invoked[1].cb = "cb2"

\* C10: the list is in the order in which each id was first delivered.
C10_ArrivalOrder == Ids(messages) = delivered

\* two messages are listed against the order of their timestamps, and one
\* of them has been delivered again
C10_Witness ==
    /\ Len(messages) = 2
    /\ messages[1].timestamp > messages[2].timestamp
    /\ lastOp.op = "receiveMessage" /\ lastOp.existed

\* C11: joinConversation(id) and leaveConversation(id) each emit exactly one
\* event, named after the operation and carrying id, and leave the list, the
\* flag and the observer slot unchanged.
C11_RoomSignalsOnly ==
    [][(lastOp'.op \in {"joinConversation", "leaveConversation"})
          => /\ emitted' = <<Emit(lastOp'.op, lastOp'.arg.value)>>
             /\ UNCHANGED <<messages, isConnected, onMessageCallback>>
      ]_vars

\* a room has been left on a connected channel that holds a message and an
\* observer
C11_Witness ==
    /\ lastOp.op = "leaveConversation"
    /\ emitted = <<Emit("leaveConversation", "c2")>>
    /\ messages # <<>> /\ isConnected /\ onMessageCallback # "null"

\* C12: the connection flag changes only in the connect and disconnect
\* callbacks; sendMessage, joinConversation, leaveConversation,
\* setOnMessageCallback and the receiveMessage handler leave it unchanged and
\* make no call on the socket other than the emit of their own event.
C12_FlagOnlyByTransport ==
    [][(lastOp'.op \in {"sendMessage", "joinConversation", "leaveConversation",
                        "setOnMessageCallback", "receiveMessage"})
          => /\ isConnected' = isConnected
             /\ socket' = socket
             /\ \A k \in 1..Len(emitted') : emitted'[k].event = lastOp'.op
      ]_vars

\* a message arrives on a channel whose flag is raised
C12_Witness ==
    /\ lastOp.op = "receiveMessage" /\ ~lastOp.existed
    /\ isConnected
    /\ transport = <<"disconnect", "connect">>

\* C13: the socket is open from construction, with no connect call; the
\* unmount of the owning component closes it, and from then on the flag is
\* false in every state.
C13_ClosedOnUnmount ==
    IF unmounted THEN socket = "closed" /\ ~isConnected ELSE socket = "open"

\* the component has unmounted while the channel was connected and in use
C13_Witness ==
    /\ lastOp.op = "unmount" /\ lastOp.arg.value = "connected"
    /\ unmounted /\ ~isConnected
    /\ transport = <<"connect", "disconnect">>
    /\ messages # <<>>

\* C22 (as claimed): an inbound message without an id that differs from
\* every listed message is added to the list.
C22_IdlessBothKept ==
    [][(/\ lastOp'.op = "receiveMessage"
        /\ lastOp'.arg.id = Undefined
        /\ \A k \in 1..Len(messages) : messages[k] # lastOp'.arg)
          => messages' = Append(messages, lastOp'.arg)
      ]_vars

\* C22 (amended): inbound messages without an id are deduplicated against
\* each other: the first one is added to the list, and every later one is
\* dropped whatever it carries, so the list holds at most one of them.
C22_IdlessDeduplicated ==
    [][/\ Count(messages', Undefined) <= 1
       /\ (lastOp'.op = "receiveMessage" /\ lastOp'.arg.id = Undefined)
             => messages' = IF \E k \in 1..Len(messages) : messages[k].id = Undefined
                            THEN messages
                            ELSE Append(messages, lastOp'.arg)
      ]_vars

\* a second message without an id, different from the one listed, has been
\* delivered and is not in the list
C22_Witness ==
    /\ lastOp.op = "receiveMessage" /\ lastOp.existed
    /\ lastOp.arg.id = Undefined
    /\ \A k \in 1..Len(messages) : messages[k] # lastOp.arg
    /\ Count(messages, Undefined) = 1

-----------------------------------------------------------------------------
(* Properties of the chat view with its channel, checked under Spec *)

\* C4 (as claimed): no two entries of the message list share an id.
C4_UniqueIds ==
    \A i, j \in 1..Len(messages) : i # j => messages[i].id # messages[j].id

\* the steps that replace the whole list
ClearsList ==
    \/ \E username \in Others \cup {Me} :
          ConvByUsername(username) = {} /\ SelectConversation(username)
    \/ \E username \in Others :
          StartNewChat([_id |-> UserIdOf(username), username |-> username])
LoadsHistory ==
    \E task \in BagToSet(tasks), outcome \in Outcomes,
       result \in UNION {Histories(c) : c \in ConvIds} :
          HistoryDone(task, outcome, result)
Extends == IsPrefix(messages, messages') /\ Len(messages') <= Len(messages) + 1

\* C5 (as claimed): every operation leaves the entries already in the list
\* unchanged and in place, and can only add entries at the end.
C5_AppendOnly == [][IsPrefix(messages, messages')]_vars

\* C5 (amended): every operation leaves the entries already in the list
\* unchanged and in place and adds at most one entry at the end, except that
\* selectConversation of a user with no listed conversation and startNewChat
\* empty the list, and a completed history load replaces it by the loaded
\* history (by the empty list when the request fails).
C5_AppendOnlyBetweenReloads ==
    [][ \/ Extends
        \/ ClearsList /\ messages' = <<>>
        \/ LoadsHistory /\ \A k \in 1..Len(messages') :
                               messages'[k].id \in {"m0", "m1"} /\ messages'[k].content = <<"h">>
      ]_vars

\* a message was received and a sent message appended behind it
C5_Witness ==
    /\ Len(messages) = 2
    /\ messages[1] \in Served
    /\ messages[2].content \in Typed
    /\ messages[2].from = currentUser

\* C14 (as claimed): the rooms joined and not left since are none, or the
\* one room activeConversationId names.
C14_OnlyActiveRoomJoined == rooms = {} \/ rooms = {activeConversationId}

\* the steps in which send() has an OK response to its POST
SendSucceeds(task) ==
    \E now \in Times :
       \/ PostDone(task, "ok", now)
       \/ \E conversationId \in ConvIds : CreateDone(task, "ok", conversationId, now)

\* C15 (as claimed): the message send() appends is addressed to the recipient
\* that was selected when send() was called.
C15_AddressedToSelected ==
    [][\A task \in BagToSet(tasks) :
          (SendSucceeds(task) /\ Len(messages') > Len(messages))
             => Last(messages').to = task.to
      ]_vars

\* a history response arrives and leaves no history request pending
LastHistoryArrives(task, result) ==
    /\ HistoryDone(task, "ok", result)
    /\ \A t \in BagToSet(tasks') : t.kind # "history"

\* C16 (as claimed): once every history request has its response, the list
\* holds a history of the active conversation.
C16_ShowsActiveHistory ==
    [][\A task \in BagToSet(tasks), result \in UNION {Histories(c) : c \in ConvIds} :
          (LastHistoryArrives(task, result) /\ activeConversationId' \in ConvIds)
             => \E h \in Histories(activeConversationId') :
                   Ids(messages') = [k \in 1..Len(h) |-> h[k]._id]
      ]_vars

\* C17: in an existing conversation, the response to the POST and the
\* receiveMessage event that carry the same server-assigned id leave exactly
\* one entry with that id, whichever of the two comes first: each of them
\* adds the entry if the id is not listed and adds nothing if it is.
C17_PostedOnce ==
    [][/\ \A task \in BagToSet(tasks), now \in Times :
             (PostDone(task, "ok", now) /\ task.id # Undefined
                 /\ Count(messages, task.id) <= 1)
                => Count(messages', task.id) = 1
       /\ \A message \in stored :
             (OnReceiveMessage(message) /\ Count(messages, message.id) <= 1)
                => Count(messages', message.id) = 1
      ]_vars

\* the receiveMessage event of a message posted in an existing conversation
\* has arrived after the response to its POST, behind another message
C17_Witness ==
    /\ \E message \in stored :
          /\ message.to = PartnerOf(activeConversationId)
          /\ \A task \in BagToSet(tasks) : task.id # message.id
          /\ Len(invoked) = 1 /\ invoked[1].message = message
          /\ Count(messages, message.id) = 1
    /\ activeConversationId \in ConvIds
    /\ conversations = AllConvs
    /\ Len(messages) = 2

\* the steps of selectConversation and startNewChat
Selects ==
    \/ \E username \in Others \cup {Me} : SelectConversation(username)
    \/ \E username \in Others :
          StartNewChat([_id |-> UserIdOf(username), username |-> username])

\* C18: selectConversation and startNewChat emit a leaveConversation for
\* the room that was active, if any, before any joinConversation, and a
\* joinConversation for the conversation that becomes active and no other.
C18_LeaveBeforeJoin ==
    [][Selects
          => emitted' =
                (IF activeConversationId # Empty
                 THEN <<Emit("leaveConversation", activeConversationId)>> ELSE <<>>)
                \o (IF activeConversationId' # Empty
                    THEN <<Emit("joinConversation", activeConversationId')>> ELSE <<>>)
      ]_vars

\* a conversation was selected while the room of another was active
C18_Witness ==
    /\ emitted = <<Emit("leaveConversation", "c1"), Emit("joinConversation", "c2")>>
    /\ activeConversationId = "c2"
    /\ recipient = "carol"

\* the steps in which send() gives up: a response that is not OK, a thrown
\* error, or a search that does not find the recipient
SendFails(task) ==
    \/ \E outcome \in Outcomes \ {"ok"} :
          PostDone(task, outcome, 1) \/ CreateDone(task, outcome, Empty, 1)
    \/ /\ tasks' = tasks (-) SetToBag({task})
       /\ \E outcome \in Outcomes, users \in UNION {SearchResults(q) : q \in PromptNames} :
             SearchDone(task, outcome, users, Undefined)

\* C19 (as claimed): a send that fails appends nothing and puts the text
\* back into the input; a send that succeeds leaves the input alone, and
\* exactly one message with its text is then listed for it.
C19_RestoredOrListedOnce ==
    [][\A task \in BagToSet(tasks) :
          /\ SendFails(task) => (messages' = messages /\ newMessage' = task.content)
          /\ \A now \in Times :
                (\/ PostDone(task, "ok", now)
                 \/ \E conversationId \in ConvIds :
                       CreateDone(task, "ok", conversationId, now))
                   => /\ newMessage' = newMessage
                      /\ Cardinality({k \in 1..Len(messages') :
                            /\ messages'[k].id = NewMsg(task.content, task.id, now).id
                            /\ messages'[k].content = task.content}) = 1
      ]_vars

\* C20 (as claimed): a request to /api/chat/message-new carries a receiverId
\* that is not empty.
C20_ReceiverKnown ==
    \A task \in BagToSet(tasks) : task.kind = "create" => task.arg # Empty

\* C21 (as claimed): while the view is mounted with a known user id, every
\* receiveMessage event starts a fetch of the conversation list.
C21_EveryMessageRefreshes ==
    [][\A message \in Served \cup stored :
          (mounted /\ currentUserId # Empty /\ OnReceiveMessage(message))
             => CopiesIn(Task("conversations", <<>>, "none", Undefined), tasks')
                   = CopiesIn(Task("conversations", <<>>, "none", Undefined), tasks) + 1
      ]_vars

-----------------------------------------------------------------------------
(* Properties of the sidebar's search, checked under SpecSidebar *)

\* C23 (as claimed): when the last user search in flight has its response,
\* searchResults holds the users found for the search query as it is now
\* (none when that request failed), and is empty when the query is blank.
C23_ResultsOfLatestQuery ==
    [][\A q \in BagToSet(searches), outcome \in Outcomes :
          (SearchUsersDone(q, outcome) /\ searches' = EmptyBag)
             => searchResults' \in (IF Trim(searchQuery') = <<>> THEN {{}}
                                    ELSE {Shown(Found(searchQuery')), {}})
      ]_vars

====
